---- MODULE Spec2Model ----
(***************************************************************************)
(* A model of quivr_core/config.py: the static model registry              *)
(* (LLMModelConfig), the endpoint configuration (LLMEndpointConfig) with   *)
(* its constructor and setters, and the reranker configuration             *)
(* (RerankerConfig).                                                       *)
(*                                                                         *)
(* Python values: a str is a TLA+ string; an Optional value is None (the   *)
(* empty tuple) or Some(v) (the one-element tuple), so that None and the   *)
(* empty string "" stay distinct, as `not x` and `x is None` tell them     *)
(* apart in the code.                                                      *)
(***************************************************************************)
EXTENDS Integers, Sequences, FiniteSets, TLC

VARIABLES
    env,     \* the process environment: variable name -> Optional str
    cfg,     \* the LLMEndpointConfig object, or NoObject before construction
    rr,      \* the RerankerConfig object, or NoObject before construction
    call,    \* the last call: operation, arguments, outcome, variable read
    clean,   \* every call on cfg since its construction returned without error
    found    \* the result of the last registry lookup

vars == <<env, cfg, rr, call, clean, found>>

----------------------------------------------------------------------------
(* Python values *)

None == <<>>
Some(v) == <<v>>
Val(o) == o[1]

\* Python truthiness of an Optional str: `not x` is true of None and of "".
Truthy(o) == o # None /\ o # Some("")

\* str.startswith
StartsWith(s, p) == Len(p) <= Len(s) /\ SubSeq(s, 1, Len(p)) = p

\* str.upper on one character (the letters the supplier names use)
UpperChar(c) ==
    CASE c = "a" -> "A" [] c = "b" -> "B" [] c = "c" -> "C" [] c = "d" -> "D"
      [] c = "e" -> "E" [] c = "f" -> "F" [] c = "g" -> "G" [] c = "h" -> "H"
      [] c = "i" -> "I" [] c = "j" -> "J" [] c = "k" -> "K" [] c = "l" -> "L"
      [] c = "m" -> "M" [] c = "n" -> "N" [] c = "o" -> "O" [] c = "p" -> "P"
      [] c = "q" -> "Q" [] c = "r" -> "R" [] c = "s" -> "S" [] c = "t" -> "T"
      [] c = "u" -> "U" [] c = "v" -> "V" [] c = "w" -> "W" [] c = "x" -> "X"
      [] c = "y" -> "Y" [] c = "z" -> "Z" [] OTHER -> c

RECURSIVE Upper(_)
Upper(s) ==
    IF Len(s) = 0 THEN ""
    ELSE UpperChar(SubSeq(s, 1, 1)) \o Upper(SubSeq(s, 2, Len(s)))

\* os.getenv(name): None when the variable is unset
GetEnv(e, name) == IF name \in DOMAIN e THEN e[name] ELSE None

----------------------------------------------------------------------------
(* The enums *)

COHERE == "cohere"
JINA == "jina"
DefaultRerankers == {COHERE, JINA}

default_model(supplier) ==
    CASE supplier = COHERE -> "rerank-multilingual-v3.0"
      [] supplier = JINA -> "jina-reranker-v2-base-multilingual"

OPENAI == "openai"
AZURE == "azure"
ANTHROPIC == "anthropic"
META == "meta"
MISTRAL == "mistral"
GROQ == "groq"
DefaultModelSuppliers == {OPENAI, AZURE, ANTHROPIC, META, MISTRAL, GROQ}

----------------------------------------------------------------------------
(* LLMModelConfig: the registry, in registration order *)

LLMConfig(context, tokenizer_hub) ==
    [context |-> context, tokenizer_hub |-> tokenizer_hub]

Entry(key, config) == [key |-> key, config |-> config]

\* A variant of OpenAIModels: "gpt-4" registered before "gpt-4-turbo"
OpenAIModels_gpt4_first == <<
    Entry("gpt-4o", LLMConfig(128000, "Xenova/gpt-4o")),
    Entry("gpt-4o-mini", LLMConfig(128000, "Xenova/gpt-4o")),
    Entry("gpt-4", LLMConfig(8192, "Xenova/gpt-4")),
    Entry("gpt-4-turbo", LLMConfig(128000, "Xenova/gpt-4")),
    Entry("gpt-3.5-turbo", LLMConfig(16385, "Xenova/gpt-3.5-turbo")),
    Entry("text-embedding-3-large", LLMConfig(8191, "Xenova/text-embedding-ada-002")),
    Entry("text-embedding-3-small", LLMConfig(8191, "Xenova/text-embedding-ada-002")),
    Entry("text-embedding-ada-002", LLMConfig(8191, "Xenova/text-embedding-ada-002")) >>

OpenAIModels == <<
    Entry("gpt-4o", LLMConfig(128000, "Xenova/gpt-4o")),
    Entry("gpt-4o-mini", LLMConfig(128000, "Xenova/gpt-4o")),
    Entry("gpt-4-turbo", LLMConfig(128000, "Xenova/gpt-4")),
    Entry("gpt-4", LLMConfig(8192, "Xenova/gpt-4")),
    Entry("gpt-3.5-turbo", LLMConfig(16385, "Xenova/gpt-3.5-turbo")),
    Entry("text-embedding-3-large", LLMConfig(8191, "Xenova/text-embedding-ada-002")),
    Entry("text-embedding-3-small", LLMConfig(8191, "Xenova/text-embedding-ada-002")),
    Entry("text-embedding-ada-002", LLMConfig(8191, "Xenova/text-embedding-ada-002")) >>

AnthropicModels == <<
    Entry("claude-3-5-sonnet", LLMConfig(200000, "Xenova/claude-tokenizer")),
    Entry("claude-3-opus", LLMConfig(200000, "Xenova/claude-tokenizer")),
    Entry("claude-3-sonnet", LLMConfig(200000, "Xenova/claude-tokenizer")),
    Entry("claude-3-haiku", LLMConfig(200000, "Xenova/claude-tokenizer")),
    Entry("claude-2-1", LLMConfig(200000, "Xenova/claude-tokenizer")),
    Entry("claude-2-0", LLMConfig(100000, "Xenova/claude-tokenizer")),
    Entry("claude-instant-1-2", LLMConfig(100000, "Xenova/claude-tokenizer")) >>

LlamaModels == <<
    Entry("llama-3.1", LLMConfig(128000, "Xenova/Meta-Llama-3.1-Tokenizer")),
    Entry("llama-3", LLMConfig(8192, "Xenova/llama3-tokenizer-new")),
    Entry("llama-2", LLMConfig(4096, "Xenova/llama2-tokenizer")),
    Entry("code-llama", LLMConfig(16384, "Xenova/llama-code-tokenizer")) >>

MistralModels == <<
    Entry("mistral-large", LLMConfig(128000, "Xenova/mistral-tokenizer-v3")),
    Entry("mistral-small", LLMConfig(128000, "Xenova/mistral-tokenizer-v3")),
    Entry("mistral-nemo", LLMConfig(128000, "Xenova/Mistral-Nemo-Instruct-Tokenizer")),
    Entry("codestral", LLMConfig(32000, "Xenova/mistral-tokenizer-v3")) >>

\* _model_defaults: a dict iterates in insertion order
_model_defaults == <<
    [supplier |-> OPENAI, models |-> OpenAIModels],
    [supplier |-> ANTHROPIC, models |-> AnthropicModels],
    [supplier |-> META, models |-> LlamaModels],
    [supplier |-> GROQ, models |-> LlamaModels],
    [supplier |-> MISTRAL, models |-> MistralModels] >>

\* The index of the first TRUE of a sequence of booleans, or 0: where a
\* `for ... : if ...: return` loop stops
FirstTrue(hits) ==
    IF \E i \in DOMAIN hits : hits[i]
    THEN CHOOSE i \in DOMAIN hits : hits[i] /\ \A j \in 1..(i - 1) : ~hits[j]
    ELSE 0

\* A variant of get_supplier_by_model_name: the loop does not stop at the
\* first supplier that matches, and the last one wins
get_supplier_by_model_name_last(model) ==
    LET hits == {i \in DOMAIN _model_defaults :
                    \E k \in DOMAIN _model_defaults[i].models :
                        StartsWith(model, _model_defaults[i].models[k].key)}
    IN  IF hits = {} THEN None
        ELSE Some(_model_defaults[CHOOSE i \in hits : \A j \in hits : j <= i].supplier)

get_supplier_by_model_name(model) ==
    LET hits == [i \in DOMAIN _model_defaults |->
                    \E k \in DOMAIN _model_defaults[i].models :
                        StartsWith(model, _model_defaults[i].models[k].key)]
        i == FirstTrue(hits)
    IN  IF i = 0 THEN None ELSE Some(_model_defaults[i].supplier)

get_llm_model_config(supplier, model_name) ==
    LET s == FirstTrue([i \in DOMAIN _model_defaults |->
                           _model_defaults[i].supplier = supplier])
    IN  IF s = 0 \/ Len(_model_defaults[s].models) = 0 THEN None
        ELSE LET models == _model_defaults[s].models
                 k == FirstTrue([i \in DOMAIN models |->
                                    StartsWith(model_name, models[i].key)])
             IN  IF k = 0 THEN None ELSE Some(models[k].config)

----------------------------------------------------------------------------
(* LLMEndpointConfig *)

NoObject == [absent |-> TRUE]
NoError == "ok"
MissingAPIKey == "ValueError: The API key for supplier is not set"
UnknownModel == "ValueError: Cannot find the corresponding supplier for model"
InvalidMapping == "AttributeError: Invalid mapping"

\* The class-body default of `supplier`
DefaultSupplier == OPENAI

\* The class-body default of `env_variable_name`: the f-string is evaluated
\* once, when the class body runs, on the class-body name `supplier`
DefaultEnvVariableName == Upper(DefaultSupplier) \o "_API_KEY"

\* The result of a call: the object as the call leaves it, the error raised
\* (NoError when it returns), and the environment variable read, if any
Outcome(c, error, read) == [cfg |-> c, error |-> error, read |-> read]

\* A variant of set_api_key: the check after the read is missing
set_api_key_unchecked(c, e, force_reset) ==
    LET reads == ~Truthy(c.llm_api_key) \/ force_reset
        key == IF reads THEN GetEnv(e, c.env_variable_name) ELSE c.llm_api_key
        read == IF reads THEN Some(c.env_variable_name) ELSE None
    IN  Outcome([c EXCEPT !.llm_api_key = key], NoError, read)

set_api_key(c, e, force_reset) ==
    LET reads == ~Truthy(c.llm_api_key) \/ force_reset
        key == IF reads THEN GetEnv(e, c.env_variable_name) ELSE c.llm_api_key
        read == IF reads THEN Some(c.env_variable_name) ELSE None
    IN  Outcome([c EXCEPT !.llm_api_key = key],
                IF ~Truthy(key) THEN MissingAPIKey ELSE NoError,
                read)

\* A variant of set_llm_model_config: limits already set are kept
set_llm_model_config_keeping(c) ==
    LET llm_model_config == get_llm_model_config(c.supplier, c.model)
    IN  IF llm_model_config # None /\ c.context_length = None
        THEN [c EXCEPT !.context_length = Some(Val(llm_model_config).context),
                       !.tokenizer_hub = Some(Val(llm_model_config).tokenizer_hub)]
        ELSE c

set_llm_model_config(c) ==
    LET llm_model_config == get_llm_model_config(c.supplier, c.model)
    IN  IF llm_model_config # None
        THEN [c EXCEPT !.context_length = Some(Val(llm_model_config).context),
                       !.tokenizer_hub = Some(Val(llm_model_config).tokenizer_hub)]
        ELSE c

\* __init__(**data): the fields take the passed values or the class defaults,
\* then set_llm_model_config() and set_api_key()
LLMEndpointConfig_init(data, e) ==
    LET fields == [supplier |-> data.supplier,
                   model |-> data.model,
                   context_length |-> data.context_length,
                   tokenizer_hub |-> data.tokenizer_hub,
                   env_variable_name |->
                       IF data.env_variable_name = None THEN DefaultEnvVariableName
                       ELSE Val(data.env_variable_name),
                   llm_api_key |-> data.llm_api_key]
    IN  set_api_key(set_llm_model_config(fields), e, FALSE)

\* A variant of set_llm_model: model is assigned before the supplier is checked
set_llm_model_eager(c, e, model) ==
    LET supplier == get_supplier_by_model_name(model)
        named == [c EXCEPT !.model = model]
    IN  IF supplier = None THEN Outcome(named, UnknownModel, None)
        ELSE set_api_key(
                 set_llm_model_config([named EXCEPT !.supplier = Val(supplier)]),
                 e, TRUE)

set_llm_model(c, e, model) ==
    LET supplier == get_supplier_by_model_name(model)
    IN  IF supplier = None THEN Outcome(c, UnknownModel, None)
        ELSE set_api_key(
                 set_llm_model_config([c EXCEPT !.supplier = Val(supplier),
                                                !.model = model]),
                 e, TRUE)

\* A variant of set_from_sqlmodel: an entry that names a missing attribute is
\* passed over
RECURSIVE set_from_sqlmodel_skipping(_, _, _)
set_from_sqlmodel_skipping(c, sqlmodel, mapping) ==
    IF mapping = <<>> THEN Outcome(c, NoError, None)
    ELSE LET model_field == mapping[1][1]
             llm_field == mapping[1][2]
         IN  IF model_field \in DOMAIN sqlmodel /\ llm_field \in DOMAIN c
             THEN set_from_sqlmodel_skipping(
                      [c EXCEPT ![llm_field] = sqlmodel[model_field]],
                      sqlmodel, Tail(mapping))
             ELSE set_from_sqlmodel_skipping(c, sqlmodel, Tail(mapping))

\* mapping is a dict, iterated in insertion order: a sequence of
\* <<model_field, llm_field>> with distinct model_field
RECURSIVE set_from_sqlmodel(_, _, _)
set_from_sqlmodel(c, sqlmodel, mapping) ==
    IF mapping = <<>> THEN Outcome(c, NoError, None)
    ELSE LET model_field == mapping[1][1]
             llm_field == mapping[1][2]
         IN  IF model_field \in DOMAIN sqlmodel /\ llm_field \in DOMAIN c
             THEN set_from_sqlmodel([c EXCEPT ![llm_field] = sqlmodel[model_field]],
                                    sqlmodel, Tail(mapping))
             ELSE Outcome(c, InvalidMapping, None)

----------------------------------------------------------------------------
(* RerankerConfig *)

\* A variant of validate_model: the supplier's default replaces a model passed
validate_model_defaulting(r, e) ==
    LET model == IF r.supplier # None
                 THEN Some(default_model(Val(r.supplier))) ELSE r.model
        withModel == [r EXCEPT !.model = model]
    IN  IF r.supplier # None
        THEN LET api_key_var == Upper(Val(r.supplier)) \o "_API_KEY"
                 api_key == GetEnv(e, api_key_var)
             IN  Outcome([withModel EXCEPT !.api_key = api_key],
                         IF api_key = None THEN MissingAPIKey ELSE NoError,
                         Some(api_key_var))
        ELSE Outcome(withModel, NoError, None)

validate_model(r, e) ==
    LET model == IF r.model = None /\ r.supplier # None
                 THEN Some(default_model(Val(r.supplier))) ELSE r.model
        withModel == [r EXCEPT !.model = model]
    IN  IF r.supplier # None
        THEN LET api_key_var == Upper(Val(r.supplier)) \o "_API_KEY"
                 api_key == GetEnv(e, api_key_var)
             IN  Outcome([withModel EXCEPT !.api_key = api_key],
                         IF api_key = None THEN MissingAPIKey ELSE NoError,
                         Some(api_key_var))
        ELSE Outcome(withModel, NoError, None)

RerankerConfig_init(data, e) ==
    validate_model([supplier |-> data.supplier, model |-> data.model,
                    api_key |-> data.api_key], e)

----------------------------------------------------------------------------
(* Bounds and input sets *)

\* The longest mapping passed to set_from_sqlmodel
MaxMapLen == 2

\* Environment variables that may be set, and the values they may hold
EndpointEnvs ==
    [OPENAI_API_KEY : {None, Some(""), Some("sk-openai")},
     ANTHROPIC_API_KEY : {None, Some("sk-anthropic")}]
RerankerEnvs ==
    [COHERE_API_KEY : {None, Some(""), Some("rk-cohere")},
     JINA_API_KEY : {None, Some("rk-jina")}]

NoEnv == [n \in {} |-> None]

\* Model names passed to the constructor and to set_llm_model
ModelNames == {"gpt-4o", "claude-3-opus-20240229", "llama-3.1-70b", "my-model"}

\* context_length and tokenizer_hub as passed to the constructor: both left
\* out, or both given
PassedLimits ==
    {[context_length |-> None, tokenizer_hub |-> None],
     [context_length |-> Some(4096), tokenizer_hub |-> Some("my/tokenizer")]}

EndpointInputs ==
    {[supplier |-> supplier, model |-> model,
      context_length |-> limits.context_length,
      tokenizer_hub |-> limits.tokenizer_hub,
      env_variable_name |-> env_variable_name,
      llm_api_key |-> llm_api_key] :
        supplier \in {OPENAI, AZURE, ANTHROPIC},
        model \in ModelNames,
        limits \in PassedLimits,
        env_variable_name \in {None, Some("ANTHROPIC_API_KEY")},
        llm_api_key \in {None, Some(""), Some("sk-explicit")}}

\* The source objects of set_from_sqlmodel: their attributes and values
SqlModels ==
    [api_key : {None, Some("sk-db")}, tokenizer : {Some("db/tokenizer")}]

\* Attribute names a mapping may use: existing and missing ones on both sides
ModelFields == {"api_key", "tokenizer", "no_such_column"}
LlmFields == {"llm_api_key", "no_such_field"}

\* dicts of at most MaxMapLen entries, as sequences with distinct keys
Mappings ==
    {m \in UNION {[1..n -> ModelFields \X LlmFields] : n \in 1..MaxMapLen} :
        \A i, j \in DOMAIN m : i # j => m[i][1] # m[j][1]}

RerankerInputs ==
    [supplier : {None, Some(COHERE), Some(JINA)},
     model : {None, Some("my-reranker")},
     api_key : {None, Some("rk-explicit")}]

\* Registry lookups: every supplier, every registered key, bare and suffixed
RegisteredKeys ==
    UNION {{_model_defaults[i].models[k].key : k \in DOMAIN _model_defaults[i].models} :
              i \in DOMAIN _model_defaults}

LookupNames ==
    RegisteredKeys \cup {key \o "-ft" : key \in RegisteredKeys} \cup {"my-model"}

----------------------------------------------------------------------------
(* The state machine *)

NoCall == [op |-> "none", arg |-> None, error |-> NoError, read |-> None]

Start ==
    /\ cfg = NoObject
    /\ rr = NoObject
    /\ call = NoCall
    /\ clean = TRUE
    /\ found = None

\* x = LLMEndpointConfig(**data)
Construct ==
    /\ cfg = NoObject
    /\ \E data \in EndpointInputs :
          LET r == LLMEndpointConfig_init(data, env)
          IN  /\ cfg' = IF r.error = NoError THEN r.cfg ELSE NoObject
              /\ call' = [op |-> "LLMEndpointConfig", arg |-> data,
                          error |-> r.error, read |-> r.read]
    /\ clean' = TRUE
    /\ UNCHANGED <<env, rr, found>>

\* What a method call on cfg leaves behind
Called(op, arg, r) ==
    /\ cfg' = r.cfg
    /\ call' = [op |-> op, arg |-> arg, error |-> r.error, read |-> r.read]
    /\ clean' = (clean /\ r.error = NoError)
    /\ UNCHANGED <<env, rr, found>>

SetLlmModel ==
    /\ cfg # NoObject
    /\ \E model \in ModelNames :
          Called("set_llm_model", model, set_llm_model(cfg, env, model))

SetApiKey ==
    /\ cfg # NoObject
    /\ \E force_reset \in BOOLEAN :
          Called("set_api_key", force_reset, set_api_key(cfg, env, force_reset))

SetFromSqlmodel ==
    /\ cfg # NoObject
    /\ \E sqlmodel \in SqlModels, mapping \in Mappings :
          Called("set_from_sqlmodel", [sqlmodel |-> sqlmodel, mapping |-> mapping],
                 set_from_sqlmodel(cfg, sqlmodel, mapping))

\* y = RerankerConfig(**data)
ConstructReranker ==
    /\ rr = NoObject
    /\ \E data \in RerankerInputs :
          LET r == RerankerConfig_init(data, env)
          IN  /\ rr' = IF r.error = NoError THEN r.cfg ELSE NoObject
              /\ call' = [op |-> "RerankerConfig", arg |-> data,
                          error |-> r.error, read |-> r.read]
    /\ UNCHANGED <<env, cfg, clean, found>>

\* LLMModelConfig.get_llm_model_config(supplier, model_name)
Lookup ==
    /\ \E supplier \in DefaultModelSuppliers, model_name \in LookupNames :
          /\ found' = get_llm_model_config(supplier, model_name)
          /\ call' = [op |-> "get_llm_model_config",
                      arg |-> [supplier |-> supplier, model_name |-> model_name],
                      error |-> NoError, read |-> None]
    /\ UNCHANGED <<env, cfg, rr, clean>>

\* The life of one endpoint configuration
Init == env \in EndpointEnvs /\ Start
Next == Construct \/ SetLlmModel \/ SetApiKey \/ SetFromSqlmodel
Spec == Init /\ [][Next]_vars

\* The two constructors
InitConstruct ==
    /\ env \in {[n \in DOMAIN a \cup DOMAIN b |->
                    IF n \in DOMAIN a THEN a[n] ELSE b[n]] :
                  a \in EndpointEnvs, b \in RerankerEnvs}
    /\ Start
NextConstruct == Construct \/ ConstructReranker
SpecConstruct == InitConstruct /\ [][NextConstruct]_vars

\* The registry alone
InitRegistry == env = NoEnv /\ Start
NextRegistry == Lookup
SpecRegistry == InitRegistry /\ [][NextRegistry]_vars

----------------------------------------------------------------------------
(* What the claims speak of *)

\* <SUPPLIER>_API_KEY
SupplierVariable(supplier) == Upper(supplier) \o "_API_KEY"

\* models[k] is the first key, in registration order, that is a prefix of name
IsFirstPrefixKey(models, k, name) ==
    /\ StartsWith(name, models[k].key)
    /\ \A j \in 1..(k - 1) : ~StartsWith(name, models[j].key)

\* Some key of _model_defaults[i] is a prefix of name
SupplierMatches(i, name) ==
    \E k \in DOMAIN _model_defaults[i].models :
        StartsWith(name, _model_defaults[i].models[k].key)

\* c holds the limits of the registry entry of (_model_defaults[i], name)
HoldsEntryOf(c, i, name) ==
    \E k \in DOMAIN _model_defaults[i].models :
        /\ IsFirstPrefixKey(_model_defaults[i].models, k, name)
        /\ c.context_length = Some(_model_defaults[i].models[k].config.context)
        /\ c.tokenizer_hub = Some(_model_defaults[i].models[k].config.tokenizer_hub)

Constructed == call.op = "LLMEndpointConfig" /\ call.error = NoError

\* C1: a construction with a supplier that returns yields an object whose API
\* key is not None, and a construction fails when no key is available: for
\* LLMEndpointConfig no llm_api_key passed and the variable the object names
\* unset, for RerankerConfig the supplier's variable unset.
C1_KeyAfterConstruction ==
    /\ cfg # NoObject => cfg.llm_api_key # None
    /\ rr # NoObject /\ rr.supplier # None => rr.api_key # None
    /\ call.op = "LLMEndpointConfig" =>
          /\ call.error = NoError <=> cfg # NoObject
          /\ LET name == IF call.arg.env_variable_name = None
                         THEN SupplierVariable(OPENAI)
                         ELSE Val(call.arg.env_variable_name)
             IN  call.arg.llm_api_key = None /\ GetEnv(env, name) = None
                     => call.error = MissingAPIKey
    /\ call.op = "RerankerConfig" /\ call.arg.supplier # None =>
          (GetEnv(env, SupplierVariable(Val(call.arg.supplier))) = None
              => call.error = MissingAPIKey /\ rr = NoObject)

\* A reranker with a supplier stands constructed, and an endpoint construction
\* has just failed for want of a key
C1_Witness ==
    /\ rr # NoObject /\ rr.supplier # None
    /\ call.op = "LLMEndpointConfig" /\ call.error = MissingAPIKey
    /\ call.arg.supplier = OPENAI /\ call.arg.model = "gpt-4o"

\* C2: whenever LLMEndpointConfig reads its key from the environment (at
\* construction with no key passed, in the forced re-read of set_llm_model), it
\* reads <SUPPLIER>_API_KEY of the supplier the object then has.
C2_ReadsSupplierVariable ==
    /\ call.op = "LLMEndpointConfig" /\ call.arg.env_variable_name = None
          /\ call.read # None
          => call.read = Some(SupplierVariable(call.arg.supplier))
    /\ call.op = "set_llm_model" /\ call.read # None
          /\ cfg.env_variable_name = DefaultEnvVariableName
          => call.read = Some(SupplierVariable(cfg.supplier))

\* C3: after a set_llm_model(name) that returns, supplier is the first supplier
\* in registration order with a key that is a prefix of name, model is name,
\* and context_length and tokenizer_hub are that supplier's entry for name;
\* "claude-3-opus-20240229" gives ANTHROPIC and 200000.
C3_SetLlmModelResolves ==
    call.op = "set_llm_model" /\ call.error = NoError =>
        /\ cfg.model = call.arg
        /\ \E i \in DOMAIN _model_defaults :
              /\ SupplierMatches(i, call.arg)
              /\ \A j \in 1..(i - 1) : ~SupplierMatches(j, call.arg)
              /\ cfg.supplier = _model_defaults[i].supplier
              /\ HoldsEntryOf(cfg, i, call.arg)
        /\ call.arg = "claude-3-opus-20240229" =>
              cfg.supplier = ANTHROPIC /\ cfg.context_length = Some(200000)

C3_Witness ==
    /\ call.op = "set_llm_model" /\ call.error = NoError
    /\ call.arg = "llama-3.1-70b" /\ cfg.supplier = META

\* C4: on a construction that returns, if the registry has an entry for
\* (supplier, model) then context_length and tokenizer_hub are the entry's,
\* whatever was passed; otherwise they are the values passed.
C4_ConstructionLimits ==
    Constructed =>
        LET known == {i \in DOMAIN _model_defaults :
                         /\ _model_defaults[i].supplier = call.arg.supplier
                         /\ SupplierMatches(i, call.arg.model)}
        IN  /\ known # {} => \E i \in known : HoldsEntryOf(cfg, i, call.arg.model)
            /\ known = {} => /\ cfg.context_length = call.arg.context_length
                             /\ cfg.tokenizer_hub = call.arg.tokenizer_hub
            /\ call.arg.supplier = OPENAI /\ call.arg.model = "gpt-4o"
                  => cfg.context_length = Some(128000)

\* An entry found overrides the limits passed
C4_Witness ==
    /\ Constructed
    /\ call.arg.supplier = OPENAI /\ call.arg.model = "gpt-4o"
    /\ call.arg.context_length = Some(4096)
    /\ cfg.context_length = Some(128000)

\* C5: set_llm_model(name) fails when no key of any supplier is a prefix of
\* name, and the failed call leaves the object as it was.
C5_UnknownModelIsRejected ==
    [][call'.op = "set_llm_model"
         /\ (\A i \in DOMAIN _model_defaults : ~SupplierMatches(i, call'.arg))
         => call'.error = UnknownModel /\ cfg' = cfg]_vars

C5_Witness ==
    /\ call.op = "set_llm_model" /\ call.error = UnknownModel
    /\ call.arg = "my-model" /\ cfg # NoObject

\* C6: for every registered (supplier, key), the lookup of key + "-ft" under
\* that supplier gives that pair's context length and tokenizer.
C6_SuffixedLookup ==
    call.op = "get_llm_model_config" =>
        \A i \in DOMAIN _model_defaults :
            \A k \in DOMAIN _model_defaults[i].models :
                /\ call.arg.supplier = _model_defaults[i].supplier
                /\ call.arg.model_name = _model_defaults[i].models[k].key \o "-ft"
                => found = Some(_model_defaults[i].models[k].config)

\* The later of two keys, one a prefix of the other, is asked for
C6_Witness ==
    /\ call.op = "get_llm_model_config"
    /\ call.arg = [supplier |-> OPENAI, model_name |-> "gpt-4-ft"]
    /\ found = Some(LLMConfig(8192, "Xenova/gpt-4"))

\* C7: a RerankerConfig built with a supplier and no model gets the supplier's
\* default model; a model passed is kept; with neither the model stays None.
C7_RerankerModel ==
    call.op = "RerankerConfig" /\ call.error = NoError =>
        rr.model =
            IF call.arg.model # None THEN call.arg.model
            ELSE IF call.arg.supplier = Some(COHERE)
                 THEN Some("rerank-multilingual-v3.0")
            ELSE IF call.arg.supplier = Some(JINA)
                 THEN Some("jina-reranker-v2-base-multilingual")
            ELSE None

C7_Witness ==
    /\ call.op = "RerankerConfig" /\ call.error = NoError
    /\ call.arg.supplier = Some(COHERE) /\ call.arg.model = None
    /\ rr.model = Some("rerank-multilingual-v3.0")

\* C8: whatever calls of set_llm_model, set_api_key and set_from_sqlmodel have
\* returned since the construction, the object has an API key that is not None.
C8_KeyKeptBySetters ==
    cfg # NoObject /\ clean => cfg.llm_api_key # None

C10_MissingKeyLeavesObject ==
    [][call'.op = "set_llm_model" /\ call'.error = MissingAPIKey
         => cfg' = cfg]_vars

====
